---- MODULE Spec2Model ----
(***************************************************************************)
(* python-mcumgr: the SMP message codec (smp.py), the NLIP line framer     *)
(* (nlip.py, class NlipPkt) and the BLE notification reassembler (ble.py,  *)
(* SMPClientBLE._response_handler), as state machines over byte sequences. *)
(* A byte is an integer 0..255, a bytes object a sequence of bytes.        *)
(* Python's default build is modelled: assert statements are executed.     *)
(***************************************************************************)
EXTENDS Integers, Sequences, FiniteSets, TLC

VARIABLES
    \* ---- NlipPkt (nlip.py) and the lines fed to it
    nlip,       \* the framer object: [nlip_len, nlip_data]
    ret,        \* outcome of the last parse_line call
    pre,        \* framer object as it was before the last parse_line call
    lastLine,   \* the line given to the last parse_line call
    lastSrc,    \* "init" | "pending" | "raw" | "new": what happened last
    pending,    \* lines of the last pack_lines result not yet fed
    packed,     \* outcome of the last pack_lines call: [err, lines, data]
    job,        \* bookkeeping of the packet whose lines are being fed
    nraw,       \* number of lines fed that pack_lines did not produce
    \* ---- MgmtHdr / MgmtMsg objects (smp.py)
    hdrs,       \* heap of MgmtHdr objects; hdrs[1] is the default argument
    msgs,       \* MgmtMsg objects: [hdr (index into hdrs), payload]
    enc,        \* the last MgmtMsg.to_bytes call since the objects last changed
    dec,        \* the last MgmtMsg.from_bytes call on bytes of enc
    smpErr,     \* exception raised by the last constructor/set_payload call
    \* ---- SMPClientBLE (ble.py) and its peer
    read_cb,    \* TRUE when the session was constructed with a callback
    read_buf,   \* SMPClientBLE._read_buf
    read_msg_q, \* items put on SMPClientBLE._read_msg_q, oldest first
    air,        \* bytes the peer has written that were not yet notified
    nsent,      \* number of messages the peer has written
    bleLast,    \* the last _response_handler call: [n, pre, chunk, out, cb]
    blePrev,    \* the _response_handler call before that one
    \* ---- a session, SMPClientNlip (nlip.py) or SMPClientBLE (ble.py), its
    \*      device, its receive loops and the thread that calls it
    kind,       \* "nlip" | "ble": the class of the session
    cli_cb,     \* TRUE when the session was constructed with read_cb
    chans,      \* the serial.Serial / BleakClient objects made so far: [open]
    cur,        \* self._ser / self._clnt: an index into chans, 0 for None
    loops,      \* reader threads / notify subscriptions: [chan, nlip, alive]
    q,          \* self._read_msg_q, oldest item first
    rbuf,       \* SMPClientBLE._read_buf of the session
    rx,         \* lines / notifications of the device not yet received
    nunits,     \* number of lines / notifications the device has sent
    call,       \* outcome of the call of the session that ended in the last
                \* step, if one did: [op, out, err, sent]; sent is what the
                \* call handed to the channel
    rd,         \* the thread that calls read_msg: [pc, finite]
    hist        \* [put, got, cbs]: items ever put on the queue, taken by
                \* read_msg, given to read_cb

nlipVars == <<nlip, ret, pre, lastLine, lastSrc, pending, packed, job, nraw>>
smpVars == <<hdrs, msgs, enc, dec, smpErr>>
bleVars == <<read_cb, read_buf, read_msg_q, air, nsent, bleLast, blePrev>>
cliVars == <<kind, cli_cb, chans, cur, loops, q, rbuf, rx, nunits, call, rd, hist>>
vars == <<nlipVars, smpVars, bleVars, cliVars>>

(***************************************************************************)
(* Bounds of the model.                                                    *)
(***************************************************************************)
\* payload lengths 0..MaxSmallLen are all packed
MaxSmallLen == 3
\* longer payloads are packed when their packet fills its last line or spills
\* one byte into a new line
MaxPayloadLen == 170
\* lines fed that pack_lines did not produce
MaxRawFeeds == 2
\* data bytes after the length field of a hand-made PACKET_START line
MaxRawData == 3
\* declared length of a hand-made PACKET_START line
MaxRawLen == 2

(***************************************************************************)
(* Program constants.                                                      *)
(***************************************************************************)
PKT_START1 == 6
PKT_START2 == 9
DATA_START1 == 4
DATA_START2 == 20
MAX_DATA_PER_LINE == 120
BYTE_SIZE == 8
\* Python's None, for NlipPkt._nlip_len
None == -1

Min(a, b) == IF a < b THEN a ELSE b

\* The element of a one-element set.  Only({ F(v) : v \in {e} }) is F(e) with e
\* evaluated once, before F: the loops below are written with it.
Only(S) == CHOOSE x \in S : TRUE

(***************************************************************************)
(* struct.pack(">H", v) and struct.unpack(">H", b): 16 bit, big endian.    *)
(***************************************************************************)
uint16be(val) == << (val \div 256) % 256, val % 256 >>

unpack_u16be(b) == b[1] * 256 + b[2]

(***************************************************************************)
(* base64.b64encode / base64.b64decode over ASCII codes.                   *)
(***************************************************************************)
LF == 10
B64_PAD == 61

B64Char(i) ==
    IF i < 26 THEN 65 + i
    ELSE IF i < 52 THEN 71 + i
    ELSE IF i < 62 THEN i - 4
    ELSE IF i = 62 THEN 43
    ELSE 47

\* 64 stands for "not a character of the alphabet"
B64Index(c) ==
    IF c >= 65 /\ c <= 90 THEN c - 65
    ELSE IF c >= 97 /\ c <= 122 THEN c - 71
    ELSE IF c >= 48 /\ c <= 57 THEN c + 4
    ELSE IF c = 43 THEN 62
    ELSE IF c = 47 THEN 63
    ELSE 64

RECURSIVE B64EncFrom(_, _)
B64EncFrom(d, i) ==
    LET n == Len(d) - i + 1
    IN  IF n <= 0 THEN << >>
        ELSE IF n = 1 THEN
            << B64Char(d[i] \div 4), B64Char((d[i] % 4) * 16), B64_PAD, B64_PAD >>
        ELSE IF n = 2 THEN
            << B64Char(d[i] \div 4),
               B64Char((d[i] % 4) * 16 + d[i + 1] \div 16),
               B64Char((d[i + 1] % 16) * 4),
               B64_PAD >>
        ELSE
            << B64Char(d[i] \div 4),
               B64Char((d[i] % 4) * 16 + d[i + 1] \div 16),
               B64Char((d[i + 1] % 16) * 4 + d[i + 2] \div 64),
               B64Char(d[i + 2] % 64) >> \o B64EncFrom(d, i + 3)

b64encode(data) == B64EncFrom(data, 1)

\* binascii.a2b_base64, not strict, one character at a time: characters outside
\* the alphabet are skipped, a complete pad sequence ends the input.
B64DecStep(st, c) ==
    IF st.done THEN st
    ELSE IF c = B64_PAD THEN
        IF st.quad >= 2 /\ st.quad + st.pads + 1 >= 4
        THEN [st EXCEPT !.done = TRUE]
        ELSE [st EXCEPT !.pads = @ + 1]
    ELSE
        LET v == B64Index(c)
        IN  IF v >= 64 THEN st
            ELSE IF st.quad = 0 THEN
                [st EXCEPT !.quad = 1, !.left = v, !.pads = 0]
            ELSE IF st.quad = 1 THEN
                [st EXCEPT !.quad = 2, !.left = v % 16, !.pads = 0,
                           !.out = Append(@, st.left * 4 + v \div 16)]
            ELSE IF st.quad = 2 THEN
                [st EXCEPT !.quad = 3, !.left = v % 4, !.pads = 0,
                           !.out = Append(@, st.left * 16 + v \div 4)]
            ELSE
                [st EXCEPT !.quad = 0, !.left = 0, !.pads = 0,
                           !.out = Append(@, st.left * 64 + v)]

\* The loop over s[lo..hi], split in halves to keep the evaluation shallow.
RECURSIVE B64DecLoop(_, _, _, _)
B64DecLoop(st, s, lo, hi) ==
    IF lo > hi THEN st
    ELSE IF lo = hi THEN B64DecStep(st, s[lo])
    ELSE Only({ B64DecLoop(m, s, (lo + hi) \div 2 + 1, hi) :
                    m \in { B64DecLoop(st, s, lo, (lo + hi) \div 2) } })

\* ok = FALSE stands for binascii.Error (a dangling quad at the end of the input)
b64decode(s) ==
    Only({ IF st.done \/ st.quad = 0
           THEN [ok |-> TRUE, val |-> st.out]
           ELSE [ok |-> FALSE, val |-> << >>] :
           st \in { B64DecLoop([quad |-> 0, left |-> 0, pads |-> 0,
                                out |-> << >>, done |-> FALSE], s, 1, Len(s)) } })

(***************************************************************************)
(* crcmod.predefined.Crc("xmodem"): CRC-16, polynomial 0x1021, initial     *)
(* value 0, no reflection, no final xor.                                   *)
(***************************************************************************)
RECURSIVE Xor(_, _)
Xor(a, b) ==
    IF a = 0 THEN b
    ELSE IF b = 0 THEN a
    ELSE ((a + b) % 2) + 2 * Xor(a \div 2, b \div 2)

CrcShift(c) ==
    IF c >= 32768 THEN Xor((c * 2) % 65536, 4129) ELSE (c * 2) % 65536

\* k shifts of the one value in S
RECURSIVE CrcBits(_, _)
CrcBits(S, k) ==
    IF k = 0 THEN S ELSE CrcBits({ CrcShift(v) : v \in S }, k - 1)

CrcByte(c, b) == Only(CrcBits({ Xor(c, b * 256) }, 8))

\* The loop over data[lo..hi], split in halves to keep the evaluation shallow.
RECURSIVE CrcLoop(_, _, _, _)
CrcLoop(c, data, lo, hi) ==
    IF lo > hi THEN c
    ELSE IF lo = hi THEN CrcByte(c, data[lo])
    ELSE Only({ CrcLoop(m, data, (lo + hi) \div 2 + 1, hi) :
                    m \in { CrcLoop(c, data, lo, (lo + hi) \div 2) } })

Crc(data) == CrcLoop(0, data, 1, Len(data))

(***************************************************************************)
(* NlipPkt (nlip.py).                                                      *)
(***************************************************************************)
RetNone == [kind |-> "none", val |-> << >>, err |-> ""]

RetPkt(payload) == [kind |-> "pkt", val |-> payload, err |-> ""]

RetRaise(e) == [kind |-> "raise", val |-> << >>, err |-> e]

\* NlipPkt.__init__ / NlipPkt.reset
Reset == [nlip_len |-> None, nlip_data |-> << >>]

\* _try_consume_payload that returns the payload and keeps the state
_try_consume_payload_NoReset(st) ==
    IF st.nlip_len > Len(st.nlip_data)
    THEN [st |-> st, ret |-> RetNone]
    ELSE [st |-> st, ret |-> RetPkt(st.nlip_data)]

_try_consume_payload(st) ==
    IF st.nlip_len > Len(st.nlip_data)
    THEN [st |-> st, ret |-> RetNone]
    ELSE [st |-> Reset, ret |-> RetPkt(st.nlip_data)]

_parse_b64_pkt(st, b64data) ==
    IF st.nlip_len # None THEN [st |-> st, ret |-> RetRaise("AssertionError")]
    ELSE
        LET d == b64decode(b64data)
        IN  IF ~d.ok THEN [st |-> st, ret |-> RetRaise("binascii.Error")]
            ELSE IF Len(d.val) < 2 THEN [st |-> st, ret |-> RetNone]
            ELSE _try_consume_payload(
                    [nlip_len |-> unpack_u16be(SubSeq(d.val, 1, 2)),
                     nlip_data |-> st.nlip_data \o SubSeq(d.val, 3, Len(d.val))])

\* _parse_b64_sub with its assert left out
_parse_b64_sub_NoAssert(st, b64data) ==
    LET d == b64decode(b64data)
    IN  IF ~d.ok THEN [st |-> st, ret |-> RetRaise("binascii.Error")]
        ELSE IF st.nlip_len = None
        THEN [st |-> [st EXCEPT !.nlip_data = @ \o d.val], ret |-> RetRaise("TypeError")]
        ELSE _try_consume_payload([st EXCEPT !.nlip_data = @ \o d.val])

_parse_b64_sub(st, b64data) ==
    IF st.nlip_len = None THEN [st |-> st, ret |-> RetRaise("AssertionError")]
    ELSE
        LET d == b64decode(b64data)
        IN  IF ~d.ok THEN [st |-> st, ret |-> RetRaise("binascii.Error")]
            ELSE _try_consume_payload([st EXCEPT !.nlip_data = @ \o d.val])

IsPktStart(line) ==
    Len(line) >= 2 /\ line[1] = PKT_START1 /\ line[2] = PKT_START2

IsDataStart(line) ==
    Len(line) >= 2 /\ line[1] = DATA_START1 /\ line[2] = DATA_START2

parse_line(st, line) ==
    IF Len(line) = 0 THEN [st |-> st, ret |-> RetNone]
    ELSE IF Len(line) < 2 THEN [st |-> st, ret |-> RetNone]
    ELSE IF IsPktStart(line) THEN _parse_b64_pkt(st, SubSeq(line, 3, Len(line)))
    ELSE IF IsDataStart(line) THEN _parse_b64_sub(st, SubSeq(line, 3, Len(line)))
    ELSE [st |-> Reset, ret |-> RetNone]

\* NlipPkt._chunks: successive n-sized chunks of data
_chunks(data, n) ==
    [k \in 1 .. ((Len(data) + n - 1) \div n) |->
        SubSeq(data, (k - 1) * n + 1, Min(k * n, Len(data)))]

_pack_b64_pkt(data) == << PKT_START1, PKT_START2 >> \o b64encode(data) \o << LF >>

_pack_b64_sub(data) == << DATA_START1, DATA_START2 >> \o b64encode(data) \o << LF >>

\* the chunk size without the factor 0.75 of base64
chunk_size_NoB64 == MAX_DATA_PER_LINE - 8

\* int(0.75 * (self.MAX_DATA_PER_LINE - 8))
chunk_size == (3 * (MAX_DATA_PER_LINE - 8)) \div 4

\* the packet data with the checksum right after the length
PktData_CrcFirst(data) == uint16be(Len(data) + 2) \o uint16be(Crc(data)) \o data

\* bytes().join([uint16be(payloadlen), data, uint16be(crc)])
PktData(data) == uint16be(Len(data) + 2) \o data \o uint16be(Crc(data))

\* the first chunk as a PACKET_START line, the others as continuation lines
LinesOf(chunks) ==
    [k \in 1 .. Len(chunks) |->
        IF k = 1 THEN _pack_b64_pkt(chunks[k]) ELSE _pack_b64_sub(chunks[k])]

\* The closing assert; the lines are kept in the result also when it fails.
AssertLines(lines) ==
    IF \E k \in 1 .. Len(lines) : ~(Len(lines[k]) < MAX_DATA_PER_LINE)
    THEN [err |-> "AssertionError", lines |-> lines]
    ELSE [err |-> "", lines |-> lines]

pack_lines(data) ==
    IF Len(data) + 2 > 65535 THEN [err |-> "struct.error", lines |-> << >>]
    ELSE Only({ AssertLines(LinesOf(_chunks(pktdata, chunk_size))) :
                    pktdata \in { PktData(data) } })

(***************************************************************************)
(* Inputs of the framer.                                                   *)
(***************************************************************************)
PayloadOf(n) == [i \in 1 .. n |-> (i * 37 + n) % 256]

PayloadLens ==
    (0 .. MaxSmallLen) \cup
    { n \in 0 .. MaxPayloadLen : (n + 4) % chunk_size \in {0, 1} }

Payloads == { PayloadOf(n) : n \in PayloadLens }

\* pack_lines of every payload of the model
Packed == [data \in Payloads |-> pack_lines(data)]

Iota(k) == [i \in 1 .. k |-> i]

\* Lines that pack_lines did not produce: empty and one-byte lines, PACKET_START
\* lines whose declared length disagrees with their data, bare continuation
\* lines, text that is not NLIP, and base64 text that is cut short.
RawLines ==
    { << >>, << LF >>, << 35, 32, LF >> }
    \cup { _pack_b64_pkt(uint16be(l) \o Iota(k)) : l \in 0 .. MaxRawLen, k \in 0 .. MaxRawData }
    \cup { _pack_b64_pkt(<< 0 >>) }
    \cup { _pack_b64_sub(Iota(k)) : k \in 0 .. MaxRawData }
    \cup { << PKT_START1, PKT_START2, 65, 65, LF >>,
           << DATA_START1, DATA_START2, 65, 65, LF >> }

NoJob == [payload |-> << >>, total |-> 0, fed |-> 0, clean |-> FALSE, afterErr |-> FALSE]

NlipInit ==
    /\ nlip = Reset
    /\ ret = RetNone
    /\ pre = Reset
    /\ lastLine = << >>
    /\ lastSrc = "init"
    /\ pending = << >>
    /\ packed = [err |-> "", lines |-> << >>, data |-> << >>]
    /\ job = NoJob
    /\ nraw = 0

\* The last parse_line call was a continuation line given to a framer that had
\* no declared length, and it raised.
ContWithoutStart ==
    /\ lastSrc = "raw"
    /\ IsDataStart(lastLine)
    /\ pre.nlip_len = None
    /\ ret.kind = "raise"

\* A writer packs a payload once the lines of the one before are fed.
Pack(data) ==
    LET r == Packed[data]
    IN  /\ pending = << >>
        /\ packed' = [err |-> r.err, lines |-> r.lines, data |-> data]
        /\ pending' = IF r.err = "" THEN r.lines ELSE pending
        /\ job' = IF r.err = ""
                  THEN [NoJob EXCEPT !.payload = data, !.total = Len(r.lines)]
                  ELSE job
        /\ UNCHANGED <<nlip, ret, pre, lastLine, lastSrc, nraw, smpVars, bleVars, cliVars>>

\* The next packed line reaches the framer.
FeedPending ==
    /\ pending # << >>
    /\ LET r == parse_line(nlip, Head(pending))
       IN  /\ nlip' = r.st
           /\ ret' = r.ret
    /\ pre' = nlip
    /\ lastLine' = Head(pending)
    /\ lastSrc' = "pending"
    /\ pending' = Tail(pending)
    /\ job' = [job EXCEPT !.fed = @ + 1,
                          !.clean = IF job.fed = 0 THEN nlip = Reset ELSE @,
                          !.afterErr = IF job.fed = 0 THEN ContWithoutStart ELSE @]
    /\ UNCHANGED <<packed, nraw, smpVars, bleVars, cliVars>>

\* Some other line reaches the framer.
FeedRaw(line) ==
    /\ nraw < MaxRawFeeds
    /\ nraw' = nraw + 1
    /\ LET r == parse_line(nlip, line)
       IN  /\ nlip' = r.st
           /\ ret' = r.ret
    /\ pre' = nlip
    /\ lastLine' = line
    /\ lastSrc' = "raw"
    /\ job' = [job EXCEPT !.clean = IF job.fed >= 1 THEN FALSE ELSE @]
    /\ UNCHANGED <<pending, packed, smpVars, bleVars, cliVars>>

\* A new NlipPkt() takes the place of the framer.
NewFramer ==
    /\ nlip' = Reset
    /\ lastSrc' = "new"
    /\ job' = [job EXCEPT !.clean = IF job.fed >= 1 THEN FALSE ELSE @]
    /\ UNCHANGED <<ret, pre, lastLine, pending, packed, nraw, smpVars, bleVars, cliVars>>

(***************************************************************************)
(* MgmtHdr and MgmtMsg (smp.py).                                           *)
(***************************************************************************)
\* MgmtHdr.__init__: nh_op & 0x03, the other fields as given
MgmtHdr(nh_op, nh_flags, nh_len, nh_group, nh_seq, nh_id) ==
    [nh_op |-> nh_op % 4, nh_flags |-> nh_flags, nh_len |-> nh_len,
     nh_group |-> nh_group, nh_seq |-> nh_seq, nh_id |-> nh_id]

\* struct.pack(">BBHHBB", ...)
MgmtHdr_to_bytes(h) ==
    << h.nh_op, h.nh_flags >> \o uint16be(h.nh_len) \o uint16be(h.nh_group)
        \o << h.nh_seq, h.nh_id >>

\* MgmtHdr_from_bytes with the last two fields in the wrong order
MgmtHdr_from_bytes_Swapped(data) ==
    MgmtHdr(data[1], data[2], unpack_u16be(SubSeq(data, 3, 4)),
            unpack_u16be(SubSeq(data, 5, 6)), data[8], data[7])

\* struct.unpack(">BBHHBB", data), data of 8 bytes, then MgmtHdr(*r)
MgmtHdr_from_bytes(data) ==
    MgmtHdr(data[1], data[2], unpack_u16be(SubSeq(data, 3, 4)),
            unpack_u16be(SubSeq(data, 5, 6)), data[7], data[8])

\* str.encode(): UTF-8 of one code point below 0x10000
Utf8(cp) ==
    IF cp < 128 THEN << cp >>
    ELSE IF cp < 2048 THEN << 192 + (cp \div 64), 128 + (cp % 64) >>
    ELSE << 224 + (cp \div 4096), 128 + ((cp \div 64) % 64), 128 + (cp % 64) >>

RECURSIVE StrEncode(_)
StrEncode(str) ==
    IF str = << >> THEN << >> ELSE Utf8(Head(str)) \o StrEncode(Tail(str))

\* MgmtMsg.set_payload, the payload it stores: obj is [type, val]
PayloadOfObj(obj) ==
    IF obj.type = "none" THEN [err |-> "", val |-> << >>]
    ELSE IF obj.type = "bytes" THEN [err |-> "", val |-> obj.val]
    ELSE IF obj.type = "str" THEN [err |-> "", val |-> StrEncode(obj.val)]
    ELSE IF obj.type = "list" THEN
        IF \A i \in 1 .. Len(obj.val) : obj.val[i] \in 0 .. 255
        THEN [err |-> "", val |-> obj.val]
        ELSE [err |-> "ValueError", val |-> << >>]
    ELSE [err |-> "ValueError", val |-> << >>]

\* MgmtMsg.size without the header
MgmtMsg_size_NoHdr(msg) == IF msg.payload # << >> THEN Len(msg.payload) ELSE 0

\* MgmtMsg.size
MgmtMsg_size(msg) ==
    BYTE_SIZE + (IF msg.payload # << >> THEN Len(msg.payload) ELSE 0)

\* MgmtMsg.to_bytes of a message with header h
MgmtMsg_to_bytes(h, payload) == MgmtHdr_to_bytes(h) \o payload

\* MgmtMsg.from_bytes without the check of the length of what follows the header
MgmtMsg_from_bytes_NoLenCheck(data) ==
    IF Len(data) < BYTE_SIZE
    THEN [kind |-> "raise", err |-> "IndexError: Size is less then header",
          hdr |-> MgmtHdr(0, 0, 0, 0, 0, 0), payload |-> << >>]
    ELSE
        LET hdr == MgmtHdr_from_bytes(SubSeq(data, 1, BYTE_SIZE))
            payload == SubSeq(data, BYTE_SIZE + 1, Min(Len(data), BYTE_SIZE + hdr.nh_len))
        IN  [kind |-> "msg", err |-> "",
             hdr |-> [hdr EXCEPT !.nh_len = Len(payload)],
             payload |-> payload]

\* MgmtMsg.from_bytes that takes all that follows the header as the payload
MgmtMsg_from_bytes_WholeRest(data) ==
    IF Len(data) < BYTE_SIZE
    THEN [kind |-> "raise", err |-> "IndexError: Size is less then header",
          hdr |-> MgmtHdr(0, 0, 0, 0, 0, 0), payload |-> << >>]
    ELSE
        LET hdr == MgmtHdr_from_bytes(SubSeq(data, 1, BYTE_SIZE))
        IN  IF Len(data) - BYTE_SIZE < hdr.nh_len
            THEN [kind |-> "raise", err |-> "IndexError: Size is less then header nh_len",
                  hdr |-> MgmtHdr(0, 0, 0, 0, 0, 0), payload |-> << >>]
            ELSE
                LET payload == SubSeq(data, BYTE_SIZE + 1, Len(data))
                IN  [kind |-> "msg", err |-> "",
                     hdr |-> [hdr EXCEPT !.nh_len = Len(payload)],
                     payload |-> payload]

\* MgmtMsg.from_bytes; the message is built by MgmtMsg(hdr, payload), whose
\* set_payload stores len(payload) in hdr.nh_len
MgmtMsg_from_bytes(data) ==
    IF Len(data) < BYTE_SIZE
    THEN [kind |-> "raise", err |-> "IndexError: Size is less then header",
          hdr |-> MgmtHdr(0, 0, 0, 0, 0, 0), payload |-> << >>]
    ELSE
        LET hdr == MgmtHdr_from_bytes(SubSeq(data, 1, BYTE_SIZE))
        IN  IF Len(data) - BYTE_SIZE < hdr.nh_len
            THEN [kind |-> "raise", err |-> "IndexError: Size is less then header nh_len",
                  hdr |-> MgmtHdr(0, 0, 0, 0, 0, 0), payload |-> << >>]
            ELSE
                LET payload == SubSeq(data, BYTE_SIZE + 1, BYTE_SIZE + hdr.nh_len)
                IN  [kind |-> "msg", err |-> "",
                     hdr |-> [hdr EXCEPT !.nh_len = Len(payload)],
                     payload |-> payload]

(***************************************************************************)
(* Message objects of a program using smp.py.  hdrs[1] is the MgmtHdr()    *)
(* that Python evaluates once, when `def __init__(self, hdr=MgmtHdr(),     *)
(* payload=bytearray())` is executed: every MgmtMsg constructed without a  *)
(* hdr argument refers to it.                                              *)
(***************************************************************************)
\* messages a run constructs
MaxMsgs == 2
\* longest payload given to a constructor or to set_payload
MaxSmpPayload == 2

DefaultHdr == 1

\* constructor arguments (nh_op, nh_flags, nh_len, nh_group, nh_seq, nh_id)
HdrArgs == { << 0, 0, 0, 0, 0, 0 >>, << 6, 255, 9, 258, 255, 4 >> }

PayloadObjs ==
    { [type |-> "none", val |-> << >>], [type |-> "int", val |-> << >>],
      [type |-> "str", val |-> << 233 >>], [type |-> "list", val |-> << 1, 256 >>] }
    \cup { [type |-> "bytes", val |-> [i \in 1 .. n |-> 6 + i]] : n \in {0, 1, MaxSmpPayload} }

NoEnc == [m |-> 0, bytes |-> << >>, hdr |-> MgmtHdr(0, 0, 0, 0, 0, 0), payload |-> << >>,
          own |-> FALSE]

NoDec == [n |-> 0, input |-> << >>, res |-> MgmtMsg_from_bytes(<< >>)]

SmpInit ==
    /\ hdrs = << MgmtHdr(0, 0, 0, 0, 0, 0) >>
    /\ msgs = << >>
    /\ enc = NoEnc
    /\ dec = NoDec
    /\ smpErr = ""

\* self.hdr = hdr; self.payload = None; self.set_payload(payload), with the
\* header object at index h of the heap.  When set_payload raises, no message
\* comes into being and the header it was given is dropped.
Construct(h, heap, obj) ==
    LET p == PayloadOfObj(obj)
    IN  IF p.err # ""
        THEN /\ smpErr' = p.err
             /\ UNCHANGED <<hdrs, msgs>>
        ELSE /\ smpErr' = ""
             /\ hdrs' = [heap EXCEPT ![h].nh_len = Len(p.val)]
             /\ msgs' = Append(msgs, [hdr |-> h, payload |-> p.val])

\* MgmtMsg(MgmtHdr(...), payload)
NewMsg(a, obj) ==
    /\ Len(msgs) < MaxMsgs
    /\ Construct(Len(hdrs) + 1,
                 Append(hdrs, MgmtHdr(a[1], a[2], a[3], a[4], a[5], a[6])), obj)
    /\ enc' = NoEnc
    /\ dec' = NoDec
    /\ UNCHANGED <<nlipVars, bleVars, cliVars>>

\* MgmtMsg(payload=...), and MgmtMsg()
NewMsgDefault(obj) ==
    /\ Len(msgs) < MaxMsgs
    /\ Construct(DefaultHdr, hdrs, obj)
    /\ enc' = NoEnc
    /\ dec' = NoDec
    /\ UNCHANGED <<nlipVars, bleVars, cliVars>>

\* msgs[m].set_payload(obj)
SetPayload(m, obj) ==
    LET p == PayloadOfObj(obj)
    IN  /\ IF p.err # ""
           THEN /\ smpErr' = p.err
                /\ UNCHANGED <<hdrs, msgs>>
           ELSE /\ smpErr' = ""
                /\ msgs' = [msgs EXCEPT ![m].payload = p.val]
                /\ hdrs' = [hdrs EXCEPT ![msgs[m].hdr].nh_len = Len(p.val)]
        /\ enc' = NoEnc
        /\ dec' = NoDec
        /\ UNCHANGED <<nlipVars, bleVars, cliVars>>

\* msgs[m].to_bytes()
ToBytes(m) ==
    /\ enc' = [m |-> m,
               bytes |-> MgmtMsg_to_bytes(hdrs[msgs[m].hdr], msgs[m].payload),
               hdr |-> hdrs[msgs[m].hdr],
               payload |-> msgs[m].payload,
               own |-> msgs[m].hdr # DefaultHdr]
    /\ dec' = NoDec
    /\ UNCHANGED <<hdrs, msgs, smpErr, nlipVars, bleVars, cliVars>>

\* what a receiver may hold of the bytes last encoded: a prefix of them, all of
\* them, or all of them and the first bytes of what follows
DecodeInputs ==
    { SubSeq(enc.bytes, 1, k) : k \in 0 .. Len(enc.bytes) }
    \cup { enc.bytes \o << 3 >>, enc.bytes \o << 3, 0 >> }

\* MgmtMsg.from_bytes(data)
FromBytes(data) ==
    /\ enc.m # 0
    /\ dec' = [n |-> 1, input |-> data, res |-> MgmtMsg_from_bytes(data)]
    /\ UNCHANGED <<hdrs, msgs, enc, smpErr, nlipVars, bleVars, cliVars>>

(***************************************************************************)
(* SMPClientBLE (ble.py): the notification handler and its peer.           *)
(***************************************************************************)
\* messages the peer writes in a run
MaxSent == 2
\* longest payload of a message of the peer
MaxPeerPayload == 1

\* A message as a value: its header and its payload.
Msg(h, payload) == [hdr |-> [h EXCEPT !.nh_len = Len(payload)], payload |-> payload]

MsgBytes(m) == MgmtMsg_to_bytes(m.hdr, m.payload)

\* one message for each payload length: a read response without payload, write
\* responses of a user group with payload
PeerMsgs ==
    { Msg(IF n = 0 THEN MgmtHdr(1, 0, 0, 0, 1, 0) ELSE MgmtHdr(3, 0, 0, 258, n, 5),
          [i \in 1 .. n |-> 6 + i]) : n \in 0 .. MaxPeerPayload }

\* SMPClientBLE._response_handler(sender, data) on a session whose _read_buf
\* is buf: the new _read_buf, the items put on the queue, the calls of read_cb
_response_handler(cb, buf, data) ==
    LET first == IF cb THEN << [kind |-> "data", data |-> data] >> ELSE << >>
        buf1 == buf \o data
        r == MgmtMsg_from_bytes(buf1)
        msg == [hdr |-> r.hdr, payload |-> r.payload]
    IN  IF r.kind = "raise"
        THEN [read_buf |-> buf1, put |-> << >>, cb |-> first, out |-> << >>]
        ELSE [read_buf |-> SubSeq(buf1, MgmtMsg_size(msg) + 1, Len(buf1)),
              put |-> IF cb THEN << >> ELSE << msg >>,
              cb |-> IF cb THEN Append(first, [kind |-> "msg", msg |-> msg]) ELSE first,
              out |-> << msg >>]

NoCall == [n |-> 0, pre |-> << >>, chunk |-> << >>, out |-> << >>, cb |-> << >>]

\* SMPClientBLE(read_cb=cb)
BleInit(cb) ==
    /\ read_cb = cb
    /\ read_buf = << >>
    /\ read_msg_q = << >>
    /\ air = << >>
    /\ nsent = 0
    /\ bleLast = NoCall
    /\ blePrev = NoCall

\* The peer writes a message to the characteristic.
PeerWrite(m) ==
    /\ nsent < MaxSent
    /\ nsent' = nsent + 1
    /\ air' = air \o MsgBytes(m)
    /\ UNCHANGED <<read_cb, read_buf, read_msg_q, bleLast, blePrev, nlipVars, smpVars, cliVars>>

\* A notification delivers the next k bytes to _response_handler.
Notify(k) ==
    LET data == SubSeq(air, 1, k)
        r == _response_handler(read_cb, read_buf, data)
    IN  /\ read_buf' = r.read_buf
        /\ read_msg_q' = read_msg_q \o r.put
        /\ air' = SubSeq(air, k + 1, Len(air))
        /\ blePrev' = bleLast
        /\ bleLast' = [n |-> Min(bleLast.n + 1, 2), pre |-> read_buf, chunk |-> data,
                       out |-> r.out, cb |-> r.cb]
        /\ UNCHANGED <<read_cb, nsent, nlipVars, smpVars, cliVars>>

(***************************************************************************)
(* A session: SMPClientNlip (nlip.py) or SMPClientBLE (ble.py), the device *)
(* at the other end, the receive loops of the session and the thread that  *)
(* calls connect, disconnect, write_msg and read_msg.                      *)
(***************************************************************************)
\* connect calls that make a channel object
MaxConnects == 2
\* lines / notifications the device sends to a session that stays connected
MaxUnits == 2
\* lines / notifications the device sends to a session that connects and
\* disconnects
MaxLifeUnits == 1
\* lines / notifications sent and not yet received
MaxInFlight == 1
NoMsg == Msg(MgmtHdr(0, 0, 0, 0, 0, 0), << >>)

\* what the receive path puts on the queue or gives to read_cb: a message, or
\* the exception caught while decoding
MsgItem(m) == [kind |-> "msg", err |-> "", msg |-> m]

ExcItem(e) == [kind |-> "raise", err |-> e, msg |-> NoMsg]

\* the message with payload, and the bytes of it the device sends in two parts
SplitMsg == CHOOSE m \in PeerMsgs : Len(m.payload) = 1

\* the message without payload
BareMsg == CHOOSE m \in PeerMsgs : Len(m.payload) = 0

SplitAt == 4

\* Lines a device sends: a message in one line each, a message in two lines,
\* a packet shorter than a header.  The second line of the message in two lines is a continuation
\* line out of place when it comes first.
NlipUnits ==
    { Head(pack_lines(MsgBytes(m)).lines) : m \in {BareMsg, SplitMsg} }
    \cup { _pack_b64_pkt(uint16be(Len(MsgBytes(SplitMsg)) + 2)
                            \o SubSeq(MsgBytes(SplitMsg), 1, SplitAt)),
           _pack_b64_sub(SubSeq(PktData(MsgBytes(SplitMsg)), SplitAt + 3,
                                Len(MsgBytes(SplitMsg)) + 4)) }
    \cup { Head(pack_lines(<< 1, 2, 3 >>).lines) }

\* Notifications a device sends: a message in one, a message in two, two
\* messages in one.
BleUnits ==
    { MsgBytes(m) : m \in {BareMsg, SplitMsg} }
    \cup { SubSeq(MsgBytes(SplitMsg), 1, SplitAt),
           SubSeq(MsgBytes(SplitMsg), SplitAt + 1, Len(MsgBytes(SplitMsg))) }
    \cup { MsgBytes(BareMsg) \o MsgBytes(SplitMsg) }

Units == IF kind = "nlip" THEN NlipUnits ELSE BleUnits

NoCallYet == [op |-> "", out |-> "", err |-> "", sent |-> << >>]

Ok(op) == [op |-> op, out |-> "ok", err |-> "", sent |-> << >>]

Raised(op, e) == [op |-> op, out |-> "raise", err |-> e, sent |-> << >>]

RdIdle == [pc |-> "idle", finite |-> FALSE]

\* SMPClientNlip(device, read_cb=...) / SMPClientBLE(address, read_cb=...)
CliInit(k, cb) ==
    /\ kind = k
    /\ cli_cb = cb
    /\ chans = << >>
    /\ cur = 0
    /\ loops = << >>
    /\ q = << >>
    /\ rbuf = << >>
    /\ rx = << >>
    /\ nunits = 0
    /\ call = NoCallYet
    /\ rd = RdIdle
    /\ hist = [put |-> << >>, got |-> << >>, cbs |-> << >>]

\* the session after its first connect()
CliConnected(k, cb) ==
    /\ kind = k
    /\ cli_cb = cb
    /\ chans = << [open |-> TRUE] >>
    /\ cur = 1
    /\ loops = << [chan |-> 1, nlip |-> Reset, alive |-> TRUE] >>
    /\ q = << >>
    /\ rbuf = << >>
    /\ rx = << >>
    /\ nunits = 0
    /\ call = Ok("connect")
    /\ rd = RdIdle
    /\ hist = [put |-> << >>, got |-> << >>, cbs |-> << >>]

\* connect() that raises before the session has changed: serial.Serial cannot
\* open the device; find_device finds none.
ConnectFails ==
    /\ call' = Raised("connect", IF kind = "nlip" THEN "SerialException"
                                 ELSE "RuntimeError: Device not found")
    /\ UNCHANGED <<kind, cli_cb, chans, cur, loops, q, rbuf, rx, nunits, rd, hist>>
    /\ UNCHANGED <<nlipVars, smpVars, bleVars>>

\* SMPClientBLE.connect whose BleakClient.connect raises: self._clnt is set,
\* nothing is connected and no notification is asked for.
ConnectBleakFails ==
    /\ kind = "ble"
    /\ Len(chans) < MaxConnects
    /\ chans' = Append(chans, [open |-> FALSE])
    /\ cur' = Len(chans) + 1
    /\ call' = Raised("connect", "BleakError")
    /\ UNCHANGED <<kind, cli_cb, loops, q, rbuf, rx, nunits, rd, hist>>
    /\ UNCHANGED <<nlipVars, smpVars, bleVars>>

\* connect(): a new channel object takes the place of self._ser / self._clnt,
\* and a new reader thread is started on it / notifications are started on it.
Connect ==
    /\ Len(chans) < MaxConnects
    /\ chans' = Append(chans, [open |-> TRUE])
    /\ cur' = Len(chans) + 1
    /\ loops' = Append(loops, [chan |-> Len(chans) + 1, nlip |-> Reset, alive |-> TRUE])
    /\ call' = Ok("connect")
    /\ UNCHANGED <<kind, cli_cb, q, rbuf, rx, nunits, rd, hist>>
    /\ UNCHANGED <<nlipVars, smpVars, bleVars>>

\* disconnect(), called as __exit__ calls it.  SMPClientNlip: self._ser.close().
\* SMPClientBLE: disconnect is a coroutine function, the call makes a coroutine
\* object and runs nothing of its body.
Disconnect ==
    /\ IF kind = "ble"
       THEN /\ call' = Ok("disconnect")
            /\ UNCHANGED chans
       ELSE IF cur = 0
            THEN /\ call' = Raised("disconnect", "AttributeError")
                 /\ UNCHANGED chans
            ELSE /\ call' = Ok("disconnect")
                 /\ chans' = [chans EXCEPT ![cur].open = FALSE]
    /\ UNCHANGED <<kind, cli_cb, cur, loops, q, rbuf, rx, nunits, rd, hist>>
    /\ UNCHANGED <<nlipVars, smpVars, bleVars>>

\* The coroutine of SMPClientBLE.disconnect run to its end by a caller that
\* awaits it: self._clnt.disconnect(), after which bleak notifies no more.
AwaitDisconnect ==
    /\ kind = "ble"
    /\ IF cur = 0
       THEN /\ call' = Raised("await disconnect", "AttributeError")
            /\ UNCHANGED <<chans, loops>>
       ELSE /\ call' = Ok("await disconnect")
            /\ chans' = [chans EXCEPT ![cur].open = FALSE]
            /\ loops' = [t \in 1 .. Len(loops) |->
                            IF loops[t].chan = cur
                            THEN [loops[t] EXCEPT !.alive = FALSE] ELSE loops[t]]
    /\ UNCHANGED <<kind, cli_cb, cur, q, rbuf, rx, nunits, rd, hist>>
    /\ UNCHANGED <<nlipVars, smpVars, bleVars>>

\* The device sends a line / a notification to a channel that is open.
DeviceSend(u, n) ==
    /\ nunits < n
    /\ Len(rx) < MaxInFlight
    /\ \E t \in 1 .. Len(loops) : loops[t].alive /\ chans[loops[t].chan].open
    /\ rx' = Append(rx, u)
    /\ nunits' = nunits + 1
    /\ UNCHANGED <<kind, cli_cb, chans, cur, loops, q, rbuf, rd, hist>>
    /\ call' = NoCallYet
    /\ UNCHANGED <<nlipVars, smpVars, bleVars>>

\* the pass of the loop with the exceptions swallowed
LineItems_DropsErrors(st, line) ==
    LET r == parse_line(st, line)
        d == MgmtMsg_from_bytes(r.ret.val)
    IN  [st |-> r.st,
         items |-> IF r.ret.kind = "pkt" /\ d.kind = "msg"
                   THEN << MsgItem([hdr |-> d.hdr, payload |-> d.payload]) >>
                   ELSE << >>]

\* msg = smp.MgmtMsg.from_bytes(pkt), or the exception it raises
DecodedItem(d) ==
    IF d.kind = "raise" THEN ExcItem(d.err)
    ELSE MsgItem([hdr |-> d.hdr, payload |-> d.payload])

\* The items one pass of the loop of _read_thread_worker makes of a line: the
\* message of a completed packet, or the exception caught.
LineItems(st, line) ==
    Only({ [st |-> r.st,
            items |-> IF r.ret.kind = "raise" THEN << ExcItem(r.ret.err) >>
                      ELSE IF r.ret.kind = "none" THEN << >>
                      ELSE Only({ << DecodedItem(d) >> :
                                    d \in { MgmtMsg_from_bytes(r.ret.val) } })]
           : r \in { parse_line(st, line) } })

\* the item given to read_cb and put on the queue as well
Deliver_Both(items) ==
    /\ q' = q \o items
    /\ hist' = [hist EXCEPT !.put = @ \o items,
                            !.cbs = IF cli_cb THEN @ \o items ELSE @]

\* the item goes to read_cb when there is one, to the queue otherwise
Deliver(items) ==
    IF cli_cb
    THEN /\ hist' = [hist EXCEPT !.cbs = @ \o items]
         /\ UNCHANGED q
    ELSE /\ q' = q \o items
         /\ hist' = [hist EXCEPT !.put = @ \o items]

\* One pass of the loop of reader thread t: ser.is_open holds, readline gives
\* the next line, the line is parsed and decoded, the outcome is delivered.
\* (A readline that times out gives an empty line, which parse_line ignores.)
WorkerLine(t) ==
    /\ kind = "nlip"
    /\ loops[t].alive
    /\ chans[loops[t].chan].open
    /\ rx # << >>
    /\ \E r \in { LineItems(loops[t].nlip, Head(rx)) } :
            /\ loops' = [loops EXCEPT ![t].nlip = r.st]
            /\ Deliver(r.items)
    /\ rx' = Tail(rx)
    /\ UNCHANGED <<kind, cli_cb, chans, cur, rbuf, nunits, rd>>
    /\ call' = NoCallYet
    /\ UNCHANGED <<nlipVars, smpVars, bleVars>>

\* Reader thread t ends: ser.is_open is false at the head of the loop, or
\* readline raises on the closed port.
WorkerExit(t) ==
    /\ kind = "nlip"
    /\ loops[t].alive
    /\ ~chans[loops[t].chan].open
    /\ loops' = [loops EXCEPT ![t].alive = FALSE]
    /\ UNCHANGED <<kind, cli_cb, chans, cur, q, rbuf, rx, nunits, rd, hist>>
    /\ call' = NoCallYet
    /\ UNCHANGED <<nlipVars, smpVars, bleVars>>

\* bleak calls _response_handler with the next notification
ClientNotify ==
    /\ kind = "ble"
    /\ \E t \in 1 .. Len(loops) : loops[t].alive /\ chans[loops[t].chan].open
    /\ rx # << >>
    /\ LET r == _response_handler(cli_cb, rbuf, Head(rx))
       IN  /\ rbuf' = r.read_buf
           /\ q' = q \o [i \in 1 .. Len(r.put) |-> MsgItem(r.put[i])]
           /\ hist' = [hist EXCEPT
                        !.put = @ \o [i \in 1 .. Len(r.put) |-> MsgItem(r.put[i])],
                        !.cbs = @ \o r.cb]
    /\ rx' = Tail(rx)
    /\ UNCHANGED <<kind, cli_cb, chans, cur, loops, nunits, rd>>
    /\ call' = NoCallYet
    /\ UNCHANGED <<nlipVars, smpVars, bleVars>>

\* bytes().join(lines)
RECURSIVE JoinLines(_)
JoinLines(lines) == IF lines = << >> THEN << >> ELSE Head(lines) \o JoinLines(Tail(lines))

\* write_msg that packs with the framer of the reader thread and resets it
WriteMsg_SharedFramer(m) ==
    /\ LET lines == pack_lines(MsgBytes(m)).lines
           data == IF kind = "nlip" THEN JoinLines(lines) ELSE MsgBytes(m)
       IN  call' = IF cur = 0 THEN Raised("write_msg", "AttributeError")
                   ELSE IF ~chans[cur].open
                   THEN Raised("write_msg", IF kind = "nlip" THEN "PortNotOpenError"
                                            ELSE "RuntimeError: Not connected")
                   ELSE [Ok("write_msg") EXCEPT !.sent = data]
    /\ loops' = [t \in 1 .. Len(loops) |-> [loops[t] EXCEPT !.nlip = Reset]]
    /\ UNCHANGED <<kind, cli_cb, chans, cur, q, rbuf, rx, nunits, rd, hist>>
    /\ UNCHANGED <<nlipVars, smpVars, bleVars>>

\* write_msg(msg).  SMPClientNlip: the message is packed into lines, then
\* self._ser.write(data), which raises on a closed port.  SMPClientBLE: raises
\* unless self._clnt.is_connected(), then write_gatt_char.
WriteMsg(m) ==
    /\ LET lines == pack_lines(MsgBytes(m)).lines
           data == IF kind = "nlip" THEN JoinLines(lines) ELSE MsgBytes(m)
       IN  call' = IF cur = 0 THEN Raised("write_msg", "AttributeError")
                   ELSE IF ~chans[cur].open
                   THEN Raised("write_msg", IF kind = "nlip" THEN "PortNotOpenError"
                                            ELSE "RuntimeError: Not connected")
                   ELSE [Ok("write_msg") EXCEPT !.sent = data]
    /\ UNCHANGED <<kind, cli_cb, chans, cur, loops, q, rbuf, rx, nunits, rd, hist>>
    /\ UNCHANGED <<nlipVars, smpVars, bleVars>>

\* read_msg without the test of self._read_cb
ReadMsgCall_NoModeCheck(finite) ==
    /\ rd.pc = "idle"
    /\ call' = NoCallYet
    /\ rd' = [pc |-> "blocked", finite |-> finite]
    /\ UNCHANGED <<kind, cli_cb, chans, cur, loops, q, rbuf, rx, nunits, hist>>
    /\ UNCHANGED <<nlipVars, smpVars, bleVars>>

\* read_msg(timeout) is called: it raises when the session has a callback, and
\* waits on the queue otherwise.
ReadMsgCall(finite) ==
    /\ rd.pc = "idle"
    /\ IF cli_cb
       THEN /\ call' = Raised("read_msg",
                              "RuntimeError: blocking read not allowed when callback set")
            /\ UNCHANGED rd
       ELSE /\ call' = NoCallYet
            /\ rd' = [pc |-> "blocked", finite |-> finite]
    /\ UNCHANGED <<kind, cli_cb, chans, cur, loops, q, rbuf, rx, nunits, hist>>
    /\ UNCHANGED <<nlipVars, smpVars, bleVars>>

\* a get that returns the newest item
ReadMsgGet_Newest ==
    /\ rd.pc = "blocked"
    /\ q # << >>
    /\ q' = SubSeq(q, 1, Len(q) - 1)
    /\ hist' = [hist EXCEPT !.got = Append(@, q[Len(q)])]
    /\ rd' = RdIdle
    /\ call' = IF q[Len(q)].kind = "raise" THEN Raised("read_msg", q[Len(q)].err)
               ELSE Ok("read_msg")
    /\ UNCHANGED <<kind, cli_cb, chans, cur, loops, rbuf, rx, nunits>>
    /\ UNCHANGED <<nlipVars, smpVars, bleVars>>

\* The get of the queue returns the oldest item; read_msg returns it, or
\* raises it when it is an exception.
ReadMsgGet ==
    /\ rd.pc = "blocked"
    /\ q # << >>
    /\ q' = Tail(q)
    /\ hist' = [hist EXCEPT !.got = Append(@, Head(q))]
    /\ rd' = RdIdle
    /\ call' = IF Head(q).kind = "raise" THEN Raised("read_msg", Head(q).err)
               ELSE Ok("read_msg")
    /\ UNCHANGED <<kind, cli_cb, chans, cur, loops, rbuf, rx, nunits>>
    /\ UNCHANGED <<nlipVars, smpVars, bleVars>>

\* queue.Queue.get(timeout=t) raises queue.Empty when t has passed with the
\* queue empty.  _Queue.get of ble.py does not look at its timeout.
ReadMsgTimeout ==
    /\ kind = "nlip"
    /\ rd.pc = "blocked"
    /\ rd.finite
    /\ q = << >>
    /\ rd' = RdIdle
    /\ call' = Raised("read_msg", "queue.Empty")
    /\ UNCHANGED <<kind, cli_cb, chans, cur, loops, q, rbuf, rx, nunits, hist>>
    /\ UNCHANGED <<nlipVars, smpVars, bleVars>>

(***************************************************************************)
(* Specifications: one per component, the others at rest.                  *)
(***************************************************************************)
Init == NlipInit /\ SmpInit /\ BleInit(FALSE) /\ CliInit("nlip", FALSE)

\* a session in queue mode, or one in callback mode
InitBle == NlipInit /\ SmpInit /\ CliInit("nlip", FALSE) /\ \E cb \in BOOLEAN : BleInit(cb)

NlipNext ==
    \/ \E data \in Payloads : Pack(data)
    \/ FeedPending
    \/ \E line \in RawLines : FeedRaw(line)
    \/ NewFramer

SpecNlip == Init /\ [][NlipNext]_vars

SmpNext ==
    \/ \E a \in HdrArgs, obj \in PayloadObjs : NewMsg(a, obj)
    \/ \E obj \in PayloadObjs : NewMsgDefault(obj)
    \/ \E m \in 1 .. Len(msgs), obj \in PayloadObjs : SetPayload(m, obj)
    \/ \E m \in 1 .. Len(msgs) : ToBytes(m)
    \/ \E data \in DecodeInputs : FromBytes(data)

SpecSmp == Init /\ [][SmpNext]_vars

BleNext ==
    \/ \E m \in PeerMsgs : PeerWrite(m)
    \/ \E k \in 0 .. Len(air) : Notify(k)

SpecBle == InitBle /\ [][BleNext]_vars

\* a session of either class, in queue mode or in callback mode
InitClient ==
    /\ NlipInit /\ SmpInit /\ BleInit(FALSE)
    /\ \E k \in {"nlip", "ble"}, cb \in BOOLEAN : CliInit(k, cb)

ClientNext ==
    \/ ConnectFails
    \/ ConnectBleakFails
    \/ Connect
    \/ Disconnect
    \/ AwaitDisconnect
    \/ \E u \in Units : DeviceSend(u, MaxLifeUnits)
    \/ \E t \in 1 .. Len(loops) : WorkerLine(t)
    \/ \E t \in 1 .. Len(loops) : WorkerExit(t)
    \/ ClientNotify
    \/ \E m \in {SplitMsg} : WriteMsg(m)
    \/ \E finite \in BOOLEAN : ReadMsgCall(finite)
    \/ ReadMsgGet
    \/ ReadMsgTimeout

SpecClient == InitClient /\ [][ClientNext]_vars

\* The reader threads and the thread of the caller are scheduled, bleak's loop
\* runs its handler, and a timeout that is due expires.
FairClient ==
    /\ WF_vars(\E t \in 1 .. Len(loops) : WorkerLine(t))
    /\ WF_vars(\E t \in 1 .. Len(loops) : WorkerExit(t))
    /\ WF_vars(ClientNotify)
    /\ WF_vars(ReadMsgGet)
    /\ WF_vars(ReadMsgTimeout)

FairSpecClient == InitClient /\ [][ClientNext]_vars /\ FairClient

\* a session that stays connected: the device sends, the receive loop
\* receives, the caller writes and reads
InitData ==
    /\ NlipInit /\ SmpInit /\ BleInit(FALSE)
    /\ \E k \in {"nlip", "ble"}, cb \in BOOLEAN : CliConnected(k, cb)

DataNext ==
    \/ \E u \in Units : DeviceSend(u, MaxUnits)
    \/ \E t \in 1 .. Len(loops) : WorkerLine(t)
    \/ ClientNotify
    \/ \E m \in {SplitMsg} : WriteMsg(m)
    \/ \E finite \in BOOLEAN : ReadMsgCall(finite)
    \/ ReadMsgGet
    \/ ReadMsgTimeout

SpecData == InitData /\ [][DataNext]_vars

\* as FairClient, with a consumer that calls read_msg again and again
FairData ==
    /\ WF_vars(\E t \in 1 .. Len(loops) : WorkerLine(t))
    /\ WF_vars(ClientNotify)
    /\ WF_vars(\E finite \in BOOLEAN : ReadMsgCall(finite))
    /\ WF_vars(ReadMsgGet)
    /\ WF_vars(ReadMsgTimeout)

FairSpecData == InitData /\ [][DataNext]_vars /\ FairData

(***************************************************************************)
(* Properties of NlipPkt, checked under SpecNlip.                          *)
(***************************************************************************)
\* ret is the outcome of parse_line(pre, lastLine)
Parsed == lastSrc \in {"pending", "raw"}

\* ret is the outcome of the line number job.fed of pack_lines(job.payload),
\* whose first line met an empty framer and whose lines were fed one after
\* the other with nothing in between
FedInOrder == lastSrc = "pending" /\ job.clean

\* what the last line carried, and the declared length and the accumulated
\* bytes the framer had once it was taken in
LastData == b64decode(SubSeq(lastLine, 3, Len(lastLine))).val

Declared == IF IsPktStart(lastLine) THEN unpack_u16be(LastData) ELSE pre.nlip_len

Accumulated ==
    IF IsPktStart(lastLine)
    THEN pre.nlip_data \o SubSeq(LastData, 3, Len(LastData))
    ELSE pre.nlip_data \o LastData

\* C1: the lines of pack_lines(payload), fed in order to a fresh framer, give
\* nothing for every line but the last and exactly payload for the last.
C1_RoundTrip ==
    FedInOrder =>
        ret = IF job.fed < job.total THEN RetNone ELSE RetPkt(job.payload)

\* C2: a PACKET_START line fed while a packet is in progress raises nothing and
\* leaves the framer as a fresh framer would be after that line alone.
C2_PacketStartRestarts ==
    (Parsed /\ IsPktStart(lastLine) /\ pre.nlip_len # None) =>
        /\ ret.kind # "raise"
        /\ [st |-> nlip, ret |-> ret] = parse_line(Reset, lastLine)

\* C8: a completed packet is exactly the first declared-length accumulated
\* bytes, and the framer is left empty.
C8_ExactDeclaredLength ==
    (Parsed /\ ret.kind = "pkt") =>
        /\ ret.val = SubSeq(Accumulated, 1, Declared)
        /\ nlip = Reset

\* C9: a CONTINUATION_START line fed to a framer without declared length raises
\* and leaves the framer empty, and the lines of a well-formed packet fed right
\* after it are reassembled: nothing until the last line, which gives the bytes
\* the packet declares (the payload and its checksum).
C9_ContinuationWithoutStart ==
    /\ (Parsed /\ IsDataStart(lastLine) /\ pre.nlip_len = None) =>
            /\ ret = RetRaise("AssertionError")
            /\ nlip = Reset
    /\ (FedInOrder /\ job.afterErr) =>
            ret = IF job.fed < job.total
                  THEN RetNone
                  ELSE RetPkt(job.payload \o uint16be(Crc(job.payload)))

\* a packet of two lines or more was reassembled right after such an error
C9_Witness ==
    /\ FedInOrder /\ job.afterErr
    /\ job.total >= 2 /\ job.fed = job.total
    /\ ret.kind = "pkt" /\ nlip = Reset

\* C10: every line pack_lines produces is shorter than 120 bytes, prefix, base64
\* text and line feed counted, and its closing assert does not fail.
C10_LineBound ==
    /\ packed.err = ""
    /\ \A k \in 1 .. Len(packed.lines) : Len(packed.lines[k]) < 120

\* a payload was packed into a full first line and at least one more line
C10_Witness ==
    /\ Len(packed.lines) >= 2
    /\ Len(packed.lines[1]) = 2 + 4 * (chunk_size \div 3) + 1
    /\ Len(packed.data) > chunk_size

\* packed holds what pack_lines returned for packed.data
PackedIsResult == packed.lines = Packed[packed.data].lines /\ packed.data \in Payloads

\* the bytes the base64 text of the lines decodes to, one after the other
RECURSIVE DecodedBodies(_, _)
DecodedBodies(lines, k) ==
    IF k > Len(lines) THEN << >>
    ELSE b64decode(SubSeq(lines[k], 3, Len(lines[k]) - 1)).val
            \o DecodedBodies(lines, k + 1)

\* what is expected of the lines of a payload
WellFormedLines(lines, data) ==
    /\ Len(lines) >= 1
    /\ \A k \in 1 .. Len(lines) :
        LET line == lines[k]
        IN  /\ Len(line) >= 3
            /\ SubSeq(line, 1, 2) = IF k = 1 THEN << 6, 9 >> ELSE << 4, 20 >>
            /\ { i \in 1 .. Len(line) : line[i] = 10 } = { Len(line) }
            /\ b64decode(SubSeq(line, 3, Len(line) - 1)).ok
    /\ DecodedBodies(lines, 1) = uint16be(Len(data) + 2) \o data \o uint16be(Crc(data))

PackedWellFormed == [data \in Payloads |-> WellFormedLines(Packed[data].lines, data)]

\* C11: pack_lines emits at least one line; the first line and only the first
\* starts with 0x06 0x09, every later line with 0x04 0x14; each line ends with
\* exactly one line feed; the decoded bodies, concatenated, are
\* u16(len(payload)+2), the payload, the 16-bit checksum.
C11_PackedLines == PackedIsResult => PackedWellFormed[packed.data]

\* a payload was packed into three lines
C11_Witness ==
    /\ PackedIsResult
    /\ Len(packed.lines) = 3
    /\ Len(packed.data) > 2 * chunk_size - 4

(***************************************************************************)
(* Properties of MgmtMsg, checked under SpecSmp.                           *)
(***************************************************************************)
\* the length a header of 8 bytes or more declares
DeclaredLen(data) == unpack_u16be(SubSeq(data, 3, 4))

C6_Truncation ==
    dec.n = 1 =>
        /\ Len(dec.input) < 8 =>
                /\ dec.res.kind = "raise"
                /\ dec.res.err = "IndexError: Size is less then header"
        /\ (Len(dec.input) >= 8 /\ Len(dec.input) - 8 < DeclaredLen(dec.input)) =>
                /\ dec.res.kind = "raise"
                /\ dec.res.err = "IndexError: Size is less then header nh_len"

\* a header that declares two bytes, followed by one
C6_Witness ==
    /\ dec.n = 1
    /\ Len(dec.input) = 9 /\ DeclaredLen(dec.input) = 2
    /\ dec.res.kind = "raise"

\* C7: at every to_bytes call the header's nh_len is the length of the payload
\* of the same message.
C7_LenMatchesPayload ==
    enc.m # 0 => enc.hdr.nh_len = Len(enc.payload)

(***************************************************************************)
(* Properties of SMPClientBLE._response_handler, checked under SpecBle.    *)
(***************************************************************************)
\* C3: one chunk that holds two complete messages yields both, in order, from
\* that one call.
C3_TwoMessagesOneChunk ==
    \A m1, m2 \in PeerMsgs :
        (bleLast.n >= 1 /\ bleLast.pre = << >>
            /\ bleLast.chunk = MsgBytes(m1) \o MsgBytes(m2)) =>
                bleLast.out = << m1, m2 >>

\* C4: the bytes of a message fed in two chunks to an empty buffer, the first
\* chunk incomplete: nothing after the first, the message after the second,
\* and the buffer is empty again.
C4_TwoChunks ==
    \A m \in PeerMsgs :
        (blePrev.n >= 1 /\ blePrev.pre = << >>
            /\ blePrev.chunk \o bleLast.chunk = MsgBytes(m)
            /\ Len(blePrev.chunk) < Len(MsgBytes(m))) =>
                /\ blePrev.out = << >>
                /\ bleLast.out = << m >>
                /\ read_buf = << >>

\* a message with payload, split inside its header
C4_Witness ==
    \E m \in PeerMsgs :
        /\ blePrev.n >= 1 /\ blePrev.pre = << >>
        /\ blePrev.chunk \o bleLast.chunk = MsgBytes(m)
        /\ Len(blePrev.chunk) \in 1 .. 7
        /\ m.payload # << >>
        /\ bleLast.out = << m >>

(***************************************************************************)
(* Properties of the sessions, checked under SpecClient, FairSpecClient,   *)
(* SpecData and FairSpecData.                                              *)
(***************************************************************************)
\* the session is in the Connected state
IsConnected == cur # 0 /\ chans[cur].open

Running == { t \in 1 .. Len(loops) : loops[t].alive }

InvalidMode == "RuntimeError: blocking read not allowed when callback set"

TruncatedErrors ==
    { "IndexError: Size is less then header",
      "IndexError: Size is less then header nh_len" }

NotConnectedErrors == { "PortNotOpenError", "RuntimeError: Not connected" }

\* C12: a read_msg with a finite timeout on a connected session, waiting on a
\* queue that stays empty, ends (with a timeout error) and does not wait
\* forever; for the serial and for the BLE session.
C12_ReadTimeout == (IsConnected /\ rd.pc = "blocked" /\ rd.finite) ~> (rd.pc = "idle")

\* C13: a read_msg that waits when disconnect() is called on the session is
\* ended with a failure and does not keep waiting.
C13_DisconnectUnblocks ==
    (rd.pc = "blocked" /\ call.op = "disconnect" /\ call.out = "ok") ~> (rd.pc = "idle")

\* C14: at every point at most one receive loop of the session is running.
C14_OneLoop == Cardinality(Running) <= 1

\* C15: disconnect() never fails, in whatever state it is called, and leaves
\* the session disconnected.
C15_DisconnectNeverFails ==
    call.op = "disconnect" => (call.out = "ok" /\ ~IsConnected)

\* C16: write_msg on a session that is not connected fails with the
\* not-connected error and hands no bytes to the channel.
C16_WriteNotConnected ==
    (call.op = "write_msg" /\ ~IsConnected) =>
        /\ call.out = "raise"
        /\ call.err \in NotConnectedErrors
        /\ call.sent = << >>

\* a pass of the serial receive loop in queue mode: what it must put on the
\* queue for the line it reads
C17_Loop ==
    (kind = "nlip" /\ ~cli_cb /\ rx # << >> /\ rx' = Tail(rx)) =>
        \E t \in 1 .. Len(loops) :
            LET r == parse_line(loops[t].nlip, Head(rx))
                d == MgmtMsg_from_bytes(r.ret.val)
                exc == IF r.ret.kind = "raise" THEN r.ret.err
                       ELSE IF r.ret.kind = "pkt" /\ d.kind = "raise" THEN d.err
                       ELSE ""
            IN  /\ loops[t].alive /\ loops'[t].alive
                /\ exc # "" => q' = Append(q, ExcItem(exc))
                /\ (r.ret.kind = "pkt" /\ d.kind = "msg") =>
                        q' = Append(q, MsgItem([hdr |-> d.hdr, payload |-> d.payload]))

\* a read_msg that takes an exception from the queue raises it
C17_Reraise ==
    (rd.pc = "blocked" /\ rd'.pc = "idle" /\ q # << >> /\ Head(q).kind = "raise") =>
        /\ q' = Tail(q)
        /\ call' = Raised("read_msg", Head(q).err)

\* C17: in queue mode an exception raised while the serial receive loop decodes
\* a line is put on the queue, the read_msg that takes it from the queue raises
\* it, and the loop keeps running and delivers the messages later lines
\* complete.
C17_ErrorsEnqueued == [][C17_Loop /\ C17_Reraise]_vars

\* an exception was put on the queue and raised by read_msg, and a message
\* completed by a later line is on the queue behind it
C17_Witness ==
    /\ kind = "nlip" /\ ~cli_cb
    /\ Len(hist.put) = 2
    /\ hist.put[1].kind = "raise" /\ hist.put[2].kind = "msg"
    /\ hist.got = << hist.put[1] >>
    /\ call = Raised("read_msg", hist.put[1].err)
    /\ q = << hist.put[2] >>
    /\ loops[1].alive

\* C18: a truncated-header or truncated-payload condition met while decoding
\* received data is never raised to the caller of read_msg.
C18_TruncationNotSurfaced ==
    (call.op = "read_msg" /\ call.out = "raise") => call.err \notin TruncatedErrors

\* C19: read_msg raises the invalid-mode error whenever the session has a
\* callback, and then takes nothing from the queue; it never raises that error
\* when the session has no callback.
C19_InvalidMode ==
    /\ (cli_cb /\ call.op = "read_msg") => call = Raised("read_msg", InvalidMode)
    /\ cli_cb => (rd.pc = "idle" /\ hist.got = << >>)
    /\ (call.op = "read_msg" /\ call.err = InvalidMode) => cli_cb

\* read_msg was called on a session whose callback has been given a message
C19_Witness ==
    /\ cli_cb
    /\ call = Raised("read_msg", InvalidMode)
    /\ \E i \in 1 .. Len(hist.cbs) : hist.cbs[i].kind = "msg"
    /\ q = << >>

\* C20: in queue mode what read_msg has taken, followed by what is on the
\* queue, is what the receive path has completed, in the order of completion;
\* and with a consumer that keeps calling read_msg every completed item is
\* taken.
C20_Fifo ==
    /\ [](~cli_cb => hist.put = hist.got \o q)
    /\ \A n \in 1 .. MaxUnits : (Len(hist.put) >= n) ~> (Len(hist.got) >= n)

\* two different messages were completed and read_msg returned both, the
\* older first
C20_Witness ==
    /\ ~cli_cb
    /\ Len(hist.put) = 2 /\ hist.got = hist.put /\ q = << >>
    /\ hist.got[1].kind = "msg" /\ hist.got[2].kind = "msg"
    /\ hist.got[1] # hist.got[2]
    /\ call = Ok("read_msg")

(***************************************************************************)
(* Delivery modes, checked over the life of a session.                     *)
(***************************************************************************)
\* the message the line at the head of rx completes in reader thread t, as a
\* sequence of at most one item
LineCompletes(t) ==
    LET r == parse_line(loops[t].nlip, Head(rx))
        d == MgmtMsg_from_bytes(r.ret.val)
    IN  IF r.ret.kind = "pkt" /\ d.kind = "msg"
        THEN << MsgItem([hdr |-> d.hdr, payload |-> d.payload]) >>
        ELSE << >>

\* the message the notification at the head of rx completes in the buffer of
\* the BLE session, as a sequence of at most one item
NotifyCompletes ==
    LET d == MgmtMsg_from_bytes(rbuf \o Head(rx))
    IN  IF d.kind = "msg"
        THEN << MsgItem([hdr |-> d.hdr, payload |-> d.payload]) >>
        ELSE << >>

\* a step of the receive path of a session without callback puts the message
\* it completes on the queue
C21_QueueStep ==
    ~cli_cb =>
        /\ \A t \in 1 .. Len(loops) :
                WorkerLine(t) => (LineCompletes(t) # << >> => q' = q \o LineCompletes(t))
        /\ ClientNotify => (NotifyCompletes # << >> => q' = q \o NotifyCompletes)

\* C21: one delivery mode for the whole life of a session: the mode never
\* changes, with a callback nothing is ever put on the queue, and without one
\* every completed message is put on the queue and no callback is invoked.
C21_OneMode ==
    /\ [](cli_cb => (q = << >> /\ hist.put = << >>))
    /\ [](~cli_cb => hist.cbs = << >>)
    /\ [][cli_cb' = cli_cb /\ C21_QueueStep]_vars

\* a serial session with a callback was reconnected and its callback was given
\* a message, the queue being empty
C21_Witness ==
    /\ kind = "nlip" /\ cli_cb
    /\ Len(chans) = 2
    /\ hist.cbs # << >> /\ hist.cbs[Len(hist.cbs)].kind = "msg"
    /\ q = << >> /\ hist.put = << >>

(***************************************************************************)
(* MgmtMsg.from_bytes on success, checked under SpecSmp.                   *)
(***************************************************************************)
\* C22: a message returned by MgmtMsg.from_bytes has as payload exactly the
\* nh_len bytes that follow the 8-byte header of the input, its size is
\* 8 + nh_len, and what the input holds beyond that is not in the message.
C22_ExactSlice ==
    (dec.n = 1 /\ dec.res.kind = "msg") =>
        LET n == DeclaredLen(dec.input)
            m == [hdr |-> dec.res.hdr, payload |-> dec.res.payload]
        IN  /\ Len(dec.input) >= BYTE_SIZE + n
            /\ dec.res.payload = SubSeq(dec.input, BYTE_SIZE + 1, BYTE_SIZE + n)
            /\ MgmtMsg_size(m) = BYTE_SIZE + n
            /\ dec.res.hdr.nh_len = n

\* an input that holds a header, the two bytes it declares, and more
C22_Witness ==
    /\ dec.n = 1 /\ dec.res.kind = "msg"
    /\ DeclaredLen(dec.input) = 2
    /\ Len(dec.input) > BYTE_SIZE + 2
    /\ Len(dec.res.payload) = 2

(***************************************************************************)
(* disconnect() on a connected session, checked under FairSpecClient.      *)
(***************************************************************************)
\* the receive loops started on channel c
LoopsOf(c) == { t \in 1 .. Len(loops) : loops[t].chan = c }

\* a disconnect() on a connected session releases the channel: the session
\* reports not connected
C23_Released == (IsConnected /\ Disconnect) => ~IsConnected'

\* while the session is not connected nothing is delivered
C23_NoFurther == (~IsConnected /\ ~IsConnected') => (hist'.put = hist.put /\ hist'.cbs = hist.cbs)

\* C23: after disconnect() on a connected session the channel is released and
\* the session reports not connected, the receive loop of the channel
\* eventually stops, and no further message is delivered.
C23_DisconnectStops ==
    /\ [][C23_Released]_vars
    /\ [][C23_NoFurther]_vars
    /\ \A c \in 1 .. MaxConnects :
            (call = Ok("disconnect") /\ cur = c) ~> (\A t \in LoopsOf(c) : ~loops[t].alive)

(***************************************************************************)
(* Callback mode, checked on a connected session.                          *)
(***************************************************************************)
\* the calls of read_cb made by the step
NewCalls == SubSeq(hist'.cbs, Len(hist.cbs) + 1, Len(hist'.cbs))

\* read_cb was called once for each of the items, with its message
CalledWith(items) ==
    /\ Len(NewCalls) = Len(items)
    /\ \A i \in 1 .. Len(items) :
            NewCalls[i].kind = "msg" /\ NewCalls[i].msg = items[i].msg

\* C24: in callback mode a step of the receive path invokes the callback once
\* for the message it completes, with that message, and does not invoke it
\* when the data received completes no message.
C24_CallbackPerMessage ==
    [][cli_cb =>
        /\ \A t \in 1 .. Len(loops) : WorkerLine(t) => CalledWith(LineCompletes(t))
        /\ ClientNotify => CalledWith(NotifyCompletes)]_vars

(***************************************************************************)
(* write_msg and the receive path, checked on a connected session.         *)
(***************************************************************************)
\* C25: a write_msg, wherever it falls between the passes of the receive
\* loop, leaves the declared length and the accumulated bytes of the loop's
\* framer, the lines not yet read and the queue as they were, so that the
\* receive path goes on as if nothing had been written.
C25_WriteLeavesReceivePath ==
    [][(\E m \in {SplitMsg} : WriteMsg(m)) =>
            /\ loops' = loops
            /\ rbuf' = rbuf
            /\ rx' = rx
            /\ q' = q
            /\ hist' = hist]_vars

\* a message was written while the reader thread held the first line of a
\* message in two lines
C25_Witness ==
    /\ kind = "nlip"
    /\ call.op = "write_msg" /\ call.out = "ok" /\ call.sent # << >>
    /\ loops[1].nlip.nlip_len # None
    /\ loops[1].nlip.nlip_data # << >>

(***************************************************************************)
(* The state parse_line leaves in an NlipPkt, checked under SpecNlip.      *)
(***************************************************************************)
\* C26: after every parse_line call, whether it returned a packet, returned
\* nothing or raised, either the declared length is unknown and the buffer is
\* empty, or the declared length is known and the buffer holds strictly fewer
\* bytes than it.
C26_FramerState ==
    \/ nlip.nlip_len = None /\ nlip.nlip_data = << >>
    \/ nlip.nlip_len # None /\ Len(nlip.nlip_data) < nlip.nlip_len

\* a parse_line that raised on a framer that holds part of a packet
C26_Witness ==
    /\ Parsed /\ ret.kind = "raise"
    /\ nlip.nlip_len # None
    /\ nlip.nlip_data # << >>
    /\ Len(nlip.nlip_data) < nlip.nlip_len

====
